---- MODULE Spec2Model ----
(***************************************************************************)
(* Import job orchestrator of x_community_notes (cmd/api).                 *)
(*                                                                         *)
(* The model follows the split layout of the API server: the HTTP handlers *)
(* of handlers.go, the download / extraction / recovery code of import.go  *)
(* (src/unnamed/part_005) and main() of main.go.  One row of the table     *)
(* import_history is one job; the process-wide pointer currentJobID, the   *)
(* per-request handler goroutines, the background run goroutine of every   *)
(* job and its progress sampler are the concurrent parts.                  *)
(*                                                                         *)
(* Status writes to import_history and reads of the tables are taken to    *)
(* succeed; the store statements whose error the code branches on (INSERT, *)
(* TRUNCATE, COPY) may fail.                                               *)
(***************************************************************************)
EXTENDS Integers, Sequences, FiniteSets, TLC

\* ------------------------------------------------------------------ bounds
MaxJobs == 2
MaxReq == 2
MaxRuns == 1
MaxFiles == 2
MaxDataRows == 2
Chunks == 2
MaxLimit == 3
MaxLines == 4
MaxDates == 2
MaxLookback == 3
MaxBytes == 25
MaxRead == 2
MaxTime == 4
Second == 2
MaxName == 2
MaxEntries == 3
MaxFileBytes == 7
MaxSize == 3

\* ----------------------------------------------------------- program constants
StatusOK == 200
MaxScan == 100
StatusCreated == 201
StatusNoContent == 204
StatusNotFound == 404
StatusConflict == 409
StatusInternalServerError == 500

NULL == -1
NoJob == 0

Req == 1..MaxReq
JobIds == 1..MaxJobs
Limits == {0, 2}
Dates == 1..MaxDates

VARIABLES
    server,          \* position of main(): "down", "booted", "sanitized", "serving"
    import_history,  \* the job table: sequence of rows, job_id = index
    currentJobID,    \* process-wide pointer, NoJob = nil
    req,             \* one record per request-handling goroutine
    resp,            \* the response being written to a client, NoResp when none
    run,             \* one record per background run goroutine (by job id)
    sampler,         \* one record per progress-sampling goroutine (by job id)
    note,            \* the store: set of <<job, file index, limit>> whose rows are loaded
    cache,           \* dataDir: file index -> "absent" | "partial" | "complete"
    tsv,             \* truncateTSV: the payload file, a sequence of lines
    payload,         \* truncateTSV: the payload as it was extracted
    maxLines,        \* truncateTSV: the maxLines argument
    tpc,             \* truncateTSV: "input" before the call, "output" after it
    remote,          \* the newest date for which the remote site publishes data
    dbFaulty,        \* TRUE when the database may refuse a progress UPDATE
    call             \* one call of a helper function: its arguments, locals and result

vars == <<server, import_history, currentJobID, req, resp, run, sampler, note, cache,
          tsv, payload, maxLines, tpc, remote, dbFaulty, call>>

truncvars == <<tsv, payload, maxLines, tpc>>

\* ------------------------------------------------------------------ helpers
Min(a, b) == IF a < b THEN a ELSE b

Active(row) == row.status \in {"downloading", "importing"}

ActiveJobs == {j \in 1..Len(import_history) : Active(import_history[j])}

\* INSERT INTO import_history (started_at, status, download_percentage, rows_processed)
NewRow ==
    [status |-> "downloading", error_message |-> "NULL", completed_at |-> FALSE,
     download_percentage |-> 0, rows_processed |-> 0, total_rows |-> NULL,
     total_files |-> NULL, current_file_index |-> NULL, files_processed |-> NULL,
     download_cached |-> FALSE, file_names |-> NULL]

IdleReq == [pc |-> "idle", job |-> NoJob]

NoResp == [code |-> 0, job |-> NoJob]
Reply(code, job) == [code |-> code, job |-> job]

NoRun ==
    [pc |-> "none", limit |-> 0, totalFiles |-> 0, i |-> 0,
     cached |-> FALSE, known |-> FALSE, bytesRead |-> 0, lastPct |-> 0,
     copied |-> NULL, cumulativeRows |-> 0, totalRows |-> 0, done |-> FALSE]

NoSampler == [pc |-> "off", tuplesProcessed |-> 0, currentTotal |-> 0]

NoCall == [fn |-> "none"]

\* The outcomes of a progress UPDATE whose error the code ignores: the table
\* as written, or the table as it was when the statement failed.
BestEffort(written) == IF dbFaulty THEN {written, import_history} ELSE {written}

\* ------------------------------------------------------------- truncateTSV
\* The first maxLines lines of the file, header line included; the file is
\* left alone when maxLines <= 0.
truncateTSV(lines, n) ==
    IF n <= 0 THEN lines ELSE SubSeq(lines, 1, Min(n, Len(lines)))

\* The extracted payload of remote file idx: a header line and DataRows(idx)
\* data lines.
DataRows(idx) == MaxDataRows - (idx % 2)
Payload(idx) == <<"header">> \o [k \in 1..DataRows(idx) |-> "row"]

\* Rows that COPY ... HEADER true loads from a payload: every line but the first.
CopyRows(lines) == IF Len(lines) = 0 THEN 0 ELSE Len(lines) - 1

\* The payload of file idx as the run with this limit loads it.
LoadedRows(limit, idx) == CopyRows(truncateTSV(Payload(idx), limit))

\* SELECT COUNT(*) FROM note
RECURSIVE SumRows(_)
SumRows(S) ==
    IF S = {} THEN 0
    ELSE LET e == CHOOSE x \in S : TRUE
         IN  LoadedRows(e[3], e[2]) + SumRows(S \ {e})
CountNote == SumRows(note)

\* --------------------------------------------------------------------- Init
\* The process is not running, the job table is empty; dataDir holds whatever
\* archives earlier downloads left there.
Init ==
    /\ server = "down"
    /\ import_history = <<>>
    /\ currentJobID = NoJob
    /\ req = [r \in Req |-> IdleReq]
    /\ resp = NoResp
    /\ run = [j \in JobIds |-> NoRun]
    /\ sampler = [j \in JobIds |-> NoSampler]
    /\ note = {}
    /\ cache \in [0..(MaxFiles - 1) -> {"absent", "complete"}]
    /\ tsv = <<>>
    /\ payload = <<>>
    /\ maxLines = 0
    /\ tpc = "input"
    /\ remote = 1
    /\ dbFaulty = FALSE
    /\ call = NoCall

\* ------------------------------------------------------------------- main()
\* initDBWithRetry succeeded: the process is up, nothing is served yet.
Boot ==
    /\ server = "down"
    /\ server' = "booted"
    /\ UNCHANGED <<import_history, currentJobID, req, resp, run, sampler, note, cache>>
    /\ UNCHANGED truncvars
    /\ UNCHANGED <<remote, dbFaulty, call>>

\* Mutant of Interrupted: the WHERE clause names 'importing' only.
InterruptedImportingOnly(row) ==
    IF row.status = "importing"
    THEN [row EXCEPT !.status = "failed", !.error_message = "Interrupted"]
    ELSE row

\* UPDATE import_history SET status = 'failed', error_message = 'Interrupted'
\* WHERE status IN ('importing', 'downloading')
Interrupted(row) ==
    IF Active(row)
    THEN [row EXCEPT !.status = "failed", !.error_message = "Interrupted"]
    ELSE row

sanitizeImportStatus ==
    /\ server = "booted"
    /\ server' = "sanitized"
    /\ import_history' =
         [j \in 1..Len(import_history) |-> Interrupted(import_history[j])]
    /\ UNCHANGED <<currentJobID, req, resp, run, sampler, note, cache>>
    /\ UNCHANGED truncvars
    /\ UNCHANGED <<remote, dbFaulty, call>>

\* http.HandleFunc(...) and http.ListenAndServe: requests are accepted from here.
ListenAndServe ==
    /\ server = "sanitized"
    /\ server' = "serving"
    /\ UNCHANGED <<import_history, currentJobID, req, resp, run, sampler, note, cache>>
    /\ UNCHANGED truncvars
    /\ UNCHANGED <<remote, dbFaulty, call>>

\* The process terminates at any point: every goroutine and currentJobID are
\* gone, an in-flight COPY is rolled back, the table and the files stay.
Crash ==
    /\ server # "down"
    /\ server' = "down"
    /\ currentJobID' = NoJob
    /\ req' = [r \in Req |-> IdleReq]
    /\ resp' = NoResp
    /\ run' = [j \in JobIds |-> NoRun]
    /\ sampler' = [j \in JobIds |-> NoSampler]
    /\ UNCHANGED <<import_history, note, cache>>
    /\ UNCHANGED truncvars
    /\ UNCHANGED <<remote, dbFaulty, call>>

\* ------------------------------------------------- createImport (handler)
\* handlers.go:216-219: the check of currentJobID; 409 when it is set.
createImportCheck(r) ==
    /\ server = "serving"
    /\ req[r].pc = "idle"
    /\ IF currentJobID # NoJob
       THEN /\ resp = NoResp
            /\ resp' = Reply(StatusConflict, NoJob)
            /\ UNCHANGED req
       ELSE /\ req' = [req EXCEPT ![r].pc = "checked"]
            /\ UNCHANGED resp
    /\ UNCHANGED <<server, import_history, currentJobID, run, sampler, note, cache>>
    /\ UNCHANGED truncvars
    /\ UNCHANGED <<remote, dbFaulty, call>>

\* handlers.go:230-239: INSERT ... RETURNING job_id; 500 when the insert fails.
createImportInsert(r) ==
    /\ req[r].pc = "checked"
    /\ \E ok \in BOOLEAN :
         IF ok
         THEN /\ Len(import_history) < MaxJobs
              /\ import_history' = Append(import_history, NewRow)
              /\ req' = [req EXCEPT ![r] =
                           [pc |-> "inserted", job |-> Len(import_history) + 1]]
              /\ UNCHANGED resp
         ELSE /\ resp = NoResp
              /\ resp' = Reply(StatusInternalServerError, NoJob)
              /\ req' = [req EXCEPT ![r] = IdleReq]
              /\ UNCHANGED import_history
    /\ UNCHANGED <<server, currentJobID, run, sampler, note, cache>>
    /\ UNCHANGED truncvars
    /\ UNCHANGED <<remote, dbFaulty, call>>

\* handlers.go:223-228, 241-247: currentJobID = &jobID, 201, go func(limit)
\* with the limit of the request.
createImportStart(r) ==
    /\ req[r].pc = "inserted"
    /\ resp = NoResp
    /\ \E limit \in Limits :
         run' = [run EXCEPT ![req[r].job] =
                   [NoRun EXCEPT !.pc = "discover", !.limit = limit]]
    /\ currentJobID' = req[r].job
    /\ resp' = Reply(StatusCreated, req[r].job)
    /\ req' = [req EXCEPT ![r] = IdleReq]
    /\ UNCHANGED <<server, import_history, sampler, note, cache>>
    /\ UNCHANGED truncvars
    /\ UNCHANGED <<remote, dbFaulty, call>>

\* ----------------------------------------------- getCurrentImport (handler)
\* handlers.go:18-22: with currentJobID nil the answer is an empty
\* ImportStatus (200, no job).
getCurrentImportCheck(r) ==
    /\ server = "serving"
    /\ req[r].pc = "idle"
    /\ IF currentJobID = NoJob
       THEN /\ resp = NoResp
            /\ resp' = Reply(StatusOK, NoJob)
            /\ UNCHANGED req
       ELSE /\ req' = [req EXCEPT ![r].pc = "current"]
            /\ UNCHANGED resp
    /\ UNCHANGED <<server, import_history, currentJobID, run, sampler, note, cache>>
    /\ UNCHANGED truncvars
    /\ UNCHANGED <<remote, dbFaulty, call>>

\* handlers.go:37-80: the row of *currentJobID is read and encoded.  The
\* pointer is read again without synchronisation: when the run has set it to
\* nil since the check, the handler panics and writes no response.
\* handlers.go:38-40: COALESCE(column, 0) in the SELECT of getCurrentImport
Coalesce(value) == IF value = NULL THEN 0 ELSE value

getCurrentImportQuery(r) ==
    /\ req[r].pc = "current"
    /\ IF currentJobID = NoJob
       THEN UNCHANGED resp
       ELSE /\ resp = NoResp
            /\ resp' = Reply(StatusOK, currentJobID)
    /\ req' = [req EXCEPT ![r] = IdleReq]
    /\ UNCHANGED <<server, import_history, currentJobID, run, sampler, note, cache>>
    /\ UNCHANGED truncvars
    /\ UNCHANGED <<remote, dbFaulty, call>>

\* ------------------------------------------------------- abort (handler)
\* POST /imports/{id}/abort, DELETE /imports/{id}: the job is forced to failed
\* when it is still downloading or importing (204), otherwise 404.
Aborted(row) ==
    [row EXCEPT !.status = "failed", !.error_message = "Aborted by user",
                !.completed_at = TRUE]

\* Mutant of abortImport: the job is forced to failed whatever its status.
abortImportAnyStatus(r, id) ==
    /\ server = "serving"
    /\ req[r].pc = "idle"
    /\ resp = NoResp
    /\ IF id \in 1..Len(import_history)
       THEN /\ import_history' = [import_history EXCEPT ![id] = Aborted(@)]
            /\ resp' = Reply(StatusNoContent, id)
       ELSE /\ UNCHANGED import_history
            /\ resp' = Reply(StatusNotFound, id)
    /\ UNCHANGED <<server, currentJobID, req, run, sampler, note, cache>>
    /\ UNCHANGED truncvars
    /\ UNCHANGED <<remote, dbFaulty, call>>

abortImport(r, id) ==
    /\ server = "serving"
    /\ req[r].pc = "idle"
    /\ resp = NoResp
    /\ IF id \in ActiveJobs
       THEN /\ import_history' = [import_history EXCEPT ![id] = Aborted(@)]
            /\ resp' = Reply(StatusNoContent, id)
       ELSE /\ UNCHANGED import_history
            /\ resp' = Reply(StatusNotFound, id)
    /\ UNCHANGED <<server, currentJobID, req, run, sampler, note, cache>>
    /\ UNCHANGED truncvars
    /\ UNCHANGED <<remote, dbFaulty, call>>

\* The client has read the response.
Deliver ==
    /\ resp # NoResp
    /\ resp' = NoResp
    /\ UNCHANGED <<server, import_history, currentJobID, req, run, sampler, note, cache>>
    /\ UNCHANGED truncvars
    /\ UNCHANGED <<remote, dbFaulty, call>>

\* Mutant of setImportFailed: the error message is not written.
setImportFailedNoMessage(hist, j, errMsg) ==
    [hist EXCEPT ![j].status = "failed", ![j].completed_at = TRUE]

\* ------------------------------------------------------------ setImportFailed
\* UPDATE import_history SET status = 'failed', error_message = $1,
\* completed_at = NOW() WHERE job_id = $2.  currentJobID is not touched.
setImportFailed(hist, j, errMsg) ==
    [hist EXCEPT ![j].status = "failed", ![j].error_message = errMsg,
                 ![j].completed_at = TRUE]

\* A fatal error of the background run: the row is marked failed and the
\* goroutine returns (handlers.go:251-254, 286-289).
RunFails(j, errMsg) ==
    /\ import_history' = setImportFailed(import_history, j, errMsg)
    /\ run' = [run EXCEPT ![j].pc = "failed"]

\* Mutant of Discover: the file count and the names are not written.
DiscoverUnrecorded(j) ==
    /\ run[j].pc = "discover"
    /\ j <= MaxRuns
    /\ \E found \in BOOLEAN, totalFiles \in 0..MaxFiles :
         IF ~found
         THEN /\ totalFiles = 0
              /\ RunFails(j, "no data files found")
         ELSE IF totalFiles = 0
         THEN RunFails(j, "no files found for date")
         ELSE /\ UNCHANGED import_history
              /\ run' = [run EXCEPT ![j].pc = "stat", ![j].totalFiles = totalFiles,
                                    ![j].i = 0]
    /\ UNCHANGED <<server, currentJobID, req, resp, sampler, note, cache>>
    /\ UNCHANGED truncvars
    /\ UNCHANGED <<remote, dbFaulty, call>>

\* ------------------------------------------- downloadNotesWithProgress
\* import.go:90-124: the newest date with data within the lookback window, the
\* number of files of that date (discoverFileCount), then the first write of
\* total_files, current_file_index and file_names (the names carry the date;
\* the model keeps the date).  Only the goroutines of the first
\* MaxRuns jobs are scheduled.
Discover(j) ==
    /\ run[j].pc = "discover"
    /\ j <= MaxRuns
    /\ \E found \in BOOLEAN, totalFiles \in 0..MaxFiles :
         IF ~found
         THEN /\ totalFiles = 0
              /\ RunFails(j, "no data files found")
         ELSE IF totalFiles = 0
         THEN RunFails(j, "no files found for date")
         ELSE /\ import_history' \in BestEffort(
                   [import_history EXCEPT ![j].total_files = totalFiles,
                                          ![j].current_file_index = 0,
                                          ![j].file_names = remote])
              /\ run' = [run EXCEPT ![j].pc = "stat", ![j].totalFiles = totalFiles,
                                    ![j].i = 0]
    /\ UNCHANGED <<server, currentJobID, req, resp, sampler, note, cache>>
    /\ UNCHANGED truncvars
    /\ UNCHANGED <<remote, dbFaulty, call>>

\* Mutant of StatCached: the cached file is reported without the 100 percent.
StatCachedNoPercent(j) ==
    /\ run[j].pc = "stat"
    /\ cache[run[j].i] # "absent"
    /\ import_history' =
         [import_history EXCEPT ![j].current_file_index = run[j].i,
                                ![j].download_cached = TRUE]
    /\ run' = [run EXCEPT ![j].pc = "post", ![j].cached = TRUE]
    /\ UNCHANGED <<server, currentJobID, req, resp, sampler, note, cache>>
    /\ UNCHANGED truncvars
    /\ UNCHANGED <<remote, dbFaulty, call>>

\* import.go:137-143: a file already at the cache path is not transferred;
\* the row gets the index, the cached flag and 100 percent.
StatCached(j) ==
    /\ run[j].pc = "stat"
    /\ cache[run[j].i] # "absent"
    /\ import_history' \in BestEffort(
         [import_history EXCEPT ![j].current_file_index = run[j].i,
                                ![j].download_cached = TRUE,
                                ![j].download_percentage = 100])
    /\ run' = [run EXCEPT ![j].pc = "post", ![j].cached = TRUE]
    /\ UNCHANGED <<server, currentJobID, req, resp, sampler, note, cache>>
    /\ UNCHANGED truncvars
    /\ UNCHANGED <<remote, dbFaulty, call>>

\* import.go:144-179: the GET request; an error or a non-200 status is fatal,
\* otherwise the tracker is set up and the cache file is created.
Request(j) ==
    /\ run[j].pc = "stat"
    /\ cache[run[j].i] = "absent"
    /\ \E ok \in BOOLEAN, known \in BOOLEAN :
         IF ok
         THEN /\ run' = [run EXCEPT ![j].pc = "copy", ![j].known = known,
                                    ![j].cached = FALSE,
                                    ![j].bytesRead = 0, ![j].lastPct = 0]
              /\ cache' = [cache EXCEPT ![run[j].i] = "partial"]
              /\ UNCHANGED import_history
         ELSE /\ ~known
              /\ RunFails(j, "failed to download")
              /\ UNCHANGED cache
    /\ UNCHANGED <<server, currentJobID, req, resp, sampler, note>>
    /\ UNCHANGED truncvars
    /\ UNCHANGED <<remote, dbFaulty, call>>

\* Mutant of currentPct: the share of the body still to be read.
remainingPct(known, bytesRead) ==
    IF known THEN 100 - (bytesRead * 100) \div Chunks ELSE 0

\* currentPct of progressTracker.Read: 0 when the total size is unknown.
currentPct(known, bytesRead) ==
    IF known THEN (bytesRead * 100) \div Chunks ELSE 0

\* import.go:33-60: one Read of the tracked body.  The row is written when the
\* size is known and the percentage advanced by 5 or a second has passed.
TrackerWrites(known, pct, lastPct, second) ==
    known /\ (pct >= lastPct + 5 \/ second)

trackerRead(j) ==
    /\ run[j].pc = "copy"
    /\ run[j].bytesRead < Chunks
    /\ \E second \in BOOLEAN :
         LET bytesRead == run[j].bytesRead + 1
             pct == currentPct(run[j].known, bytesRead)
         IN  IF TrackerWrites(run[j].known, pct, run[j].lastPct, second)
             THEN /\ import_history' \in BestEffort(
                       [import_history EXCEPT ![j].download_percentage = pct,
                                              ![j].total_files = run[j].totalFiles,
                                              ![j].current_file_index = run[j].i])
                  /\ run' = [run EXCEPT ![j].bytesRead = bytesRead,
                                        ![j].lastPct = pct]
             ELSE /\ UNCHANGED import_history
                  /\ run' = [run EXCEPT ![j].bytesRead = bytesRead]
    /\ UNCHANGED <<server, currentJobID, req, resp, sampler, note, cache>>
    /\ UNCHANGED truncvars
    /\ UNCHANGED <<remote, dbFaulty, call>>

\* Mutant of TransferFails: the partial file stays at the cache path.
TransferFailsKeepsFile(j) ==
    /\ run[j].pc = "copy"
    /\ RunFails(j, "failed to write file")
    /\ UNCHANGED <<server, currentJobID, req, resp, sampler, note, cache>>
    /\ UNCHANGED truncvars
    /\ UNCHANGED <<remote, dbFaulty, call>>

\* Mutant of TransferFails: the failing run empties the store.
TransferFailsTruncates(j) ==
    /\ run[j].pc = "copy"
    /\ cache' = [cache EXCEPT ![run[j].i] = "absent"]
    /\ RunFails(j, "failed to write file")
    /\ note' = {}
    /\ UNCHANGED <<server, currentJobID, req, resp, sampler>>
    /\ UNCHANGED truncvars
    /\ UNCHANGED <<remote, dbFaulty, call>>

\* import.go:181-185: io.Copy fails: the partial file is removed, the job fails.
TransferFails(j) ==
    /\ run[j].pc = "copy"
    /\ cache' = [cache EXCEPT ![run[j].i] = "absent"]
    /\ RunFails(j, "failed to write file")
    /\ UNCHANGED <<server, currentJobID, req, resp, sampler, note>>
    /\ UNCHANGED truncvars
    /\ UNCHANGED <<remote, dbFaulty, call>>

\* import.go:181-188: io.Copy reaches the end of the body.
TransferDone(j) ==
    /\ run[j].pc = "copy"
    /\ run[j].bytesRead = Chunks
    /\ cache' = [cache EXCEPT ![run[j].i] = "complete"]
    /\ run' = [run EXCEPT ![j].pc = "post"]
    /\ UNCHANGED <<server, import_history, currentJobID, req, resp, sampler, note>>
    /\ UNCHANGED truncvars
    /\ UNCHANGED <<remote, dbFaulty, call>>

\* import.go:191-204: the per-file write of index and cached flag, then
\* extractTSV; a missing archive entry is fatal.
Extract(j) ==
    /\ run[j].pc = "post"
    /\ \E ok \in BOOLEAN :
         IF ok
         THEN /\ import_history' \in BestEffort(
                   [import_history EXCEPT ![j].current_file_index = run[j].i,
                                          ![j].download_cached = run[j].cached])
              /\ run' = [run EXCEPT ![j].i = run[j].i + 1,
                                    ![j].bytesRead = 0,
                                    ![j].pc = IF run[j].i + 1 < run[j].totalFiles
                                              THEN "stat" ELSE "fetched"]
         ELSE /\ \E hist \in BestEffort(
                         [import_history EXCEPT ![j].current_file_index = run[j].i,
                                                ![j].download_cached = run[j].cached]) :
                   import_history' = setImportFailed(hist, j, "failed to extract")
              /\ run' = [run EXCEPT ![j].pc = "failed"]
    /\ UNCHANGED <<server, currentJobID, req, resp, sampler, note, cache>>
    /\ UNCHANGED truncvars
    /\ UNCHANGED <<remote, dbFaulty, call>>

\* --------------------------------------------- createImport (background run)
\* import.go:246-269: the number of newline bytes of the file less one; every
\* line of a payload ends in a newline.
countTSVRows(lines) == Len(lines) - 1

\* Sum of countTSVRows over the files of the run, after truncation.
RECURSIVE expectedTotalRows(_, _)
expectedTotalRows(limit, n) ==
    IF n = 0 THEN 0
    ELSE countTSVRows(truncateTSV(Payload(n - 1), limit))
           + expectedTotalRows(limit, n - 1)

\* Mutant of EnterImporting: the rows are counted before the truncation.
EnterImportingUntruncated(j) ==
    /\ run[j].pc = "fetched"
    /\ import_history' =
         [import_history EXCEPT ![j].status = "importing",
                                ![j].download_percentage = 100,
                                ![j].total_rows =
                                    expectedTotalRows(0, run[j].totalFiles),
                                ![j].files_processed = 0]
    /\ run' = [run EXCEPT ![j].pc = "truncate"]
    /\ UNCHANGED <<server, currentJobID, req, resp, sampler, note, cache>>
    /\ UNCHANGED truncvars
    /\ UNCHANGED <<remote, dbFaulty, call>>

\* handlers.go:256-283: truncation in test mode, the expected row count, and
\* the write that moves the row to importing.
EnterImporting(j) ==
    /\ run[j].pc = "fetched"
    /\ import_history' =
         [import_history EXCEPT ![j].status = "importing",
                                ![j].download_percentage = 100,
                                ![j].total_rows =
                                    expectedTotalRows(run[j].limit, run[j].totalFiles),
                                ![j].files_processed = 0]
    /\ run' = [run EXCEPT ![j].pc = "truncate"]
    /\ UNCHANGED <<server, currentJobID, req, resp, sampler, note, cache>>
    /\ UNCHANGED truncvars
    /\ UNCHANGED <<remote, dbFaulty, call>>

\* handlers.go:285-312: TRUNCATE note; on success the done channel, the
\* cumulative counter and the sampling goroutine are created.  TRUNCATE waits
\* for the table lock of a COPY in flight.
TruncateNote(j) ==
    /\ run[j].pc = "truncate"
    /\ \A k \in JobIds \ {j} : run[k].pc # "copying"
    /\ \E ok \in BOOLEAN :
         IF ok
         THEN /\ note' = {}
              /\ run' = [run EXCEPT ![j].pc = "load", ![j].i = 0,
                                    ![j].cumulativeRows = 0, ![j].totalRows = 0,
                                    ![j].done = FALSE]
              /\ sampler' = [sampler EXCEPT ![j] = [NoSampler EXCEPT !.pc = "wait"]]
              /\ UNCHANGED import_history
         ELSE /\ RunFails(j, "failed to truncate table")
              /\ UNCHANGED <<note, sampler>>
    /\ UNCHANGED <<server, currentJobID, req, resp, cache>>
    /\ UNCHANGED truncvars
    /\ UNCHANGED <<remote, dbFaulty, call>>

\* handlers.go:315-317: the write of current_file_index, then COPY starts and
\* shows up in pg_stat_progress_copy with 0 tuples.
LoadStart(j) ==
    /\ run[j].pc = "load"
    /\ import_history' \in
         BestEffort([import_history EXCEPT ![j].current_file_index = run[j].i])
    /\ run' = [run EXCEPT ![j].pc = "copying", ![j].copied = 0]
    /\ UNCHANGED <<server, currentJobID, req, resp, sampler, note, cache>>
    /\ UNCHANGED truncvars
    /\ UNCHANGED <<remote, dbFaulty, call>>

\* COPY in flight: one more tuple processed.
CopyAdvance(j) ==
    /\ run[j].pc = "copying"
    /\ run[j].copied < LoadedRows(run[j].limit, run[j].i)
    /\ run' = [run EXCEPT ![j].copied = run[j].copied + 1]
    /\ UNCHANGED <<server, import_history, currentJobID, req, resp, sampler, note, cache>>
    /\ UNCHANGED truncvars
    /\ UNCHANGED <<remote, dbFaulty, call>>

\* COPY returns without error: the rows of the file are in the store.  The
\* primary key of note (noteid) refuses rows of a file that is in the store.
CopyDone(j) ==
    /\ run[j].pc = "copying"
    /\ run[j].copied = LoadedRows(run[j].limit, run[j].i)
    /\ \A e \in note : e[2] # run[j].i
    /\ note' = note \cup {<<j, run[j].i, run[j].limit>>}
    /\ run' = [run EXCEPT ![j].pc = "count", ![j].copied = NULL]
    /\ UNCHANGED <<server, import_history, currentJobID, req, resp, sampler, cache>>
    /\ UNCHANGED truncvars
    /\ UNCHANGED <<remote, dbFaulty, call>>

\* Mutant of CopyFails: the done channel is left open.
CopyFailsNoClose(j) ==
    /\ run[j].pc = "copying"
    /\ import_history' = setImportFailed(import_history, j, "failed to import")
    /\ run' = [run EXCEPT ![j].pc = "failed", ![j].copied = NULL]
    /\ UNCHANGED <<server, currentJobID, req, resp, sampler, note, cache>>
    /\ UNCHANGED truncvars
    /\ UNCHANGED <<remote, dbFaulty, call>>

\* Mutant of CopyFails: the run goes on with the next file.
CopyFailsContinues(j) ==
    /\ run[j].pc = "copying"
    /\ import_history' = setImportFailed(import_history, j, "failed to import")
    /\ run' = [run EXCEPT ![j].pc = "mark", ![j].copied = NULL]
    /\ UNCHANGED <<server, currentJobID, req, resp, sampler, note, cache>>
    /\ UNCHANGED truncvars
    /\ UNCHANGED <<remote, dbFaulty, call>>

\* handlers.go:318-322: COPY fails: close(done), setImportFailed, return.
CopyFails(j) ==
    /\ run[j].pc = "copying"
    /\ import_history' = setImportFailed(import_history, j, "failed to import")
    /\ run' = [run EXCEPT ![j].pc = "failed", ![j].copied = NULL, ![j].done = TRUE]
    /\ UNCHANGED <<server, currentJobID, req, resp, sampler, note, cache>>
    /\ UNCHANGED truncvars
    /\ UNCHANGED <<remote, dbFaulty, call>>

\* handlers.go:327-334: SELECT COUNT(*) FROM note becomes totalRows and, under
\* the mutex, the cumulative baseline.
CountRows(j) ==
    /\ run[j].pc = "count"
    /\ run' = [run EXCEPT ![j].pc = "mark", ![j].totalRows = CountNote,
                          ![j].cumulativeRows = CountNote]
    /\ UNCHANGED <<server, import_history, currentJobID, req, resp, sampler, note, cache>>
    /\ UNCHANGED truncvars
    /\ UNCHANGED <<remote, dbFaulty, call>>

\* Mutant of MarkFile: the index of the file is written, not the count.
MarkFileIndex(j) ==
    /\ run[j].pc = "mark"
    /\ import_history' = [import_history EXCEPT ![j].files_processed = run[j].i]
    /\ run' = [run EXCEPT ![j].i = run[j].i + 1,
                          ![j].pc = IF run[j].i + 1 < run[j].totalFiles
                                    THEN "load" ELSE "loaded"]
    /\ UNCHANGED <<server, currentJobID, req, resp, sampler, note, cache>>
    /\ UNCHANGED truncvars
    /\ UNCHANGED <<remote, dbFaulty, call>>

\* Mutant of MarkFile: a refused UPDATE of files_processed fails the job.
MarkFileChecked(j) ==
    /\ run[j].pc = "mark"
    /\ \/ /\ import_history' =
                [import_history EXCEPT ![j].files_processed = run[j].i + 1]
          /\ run' = [run EXCEPT ![j].i = run[j].i + 1,
                                ![j].pc = IF run[j].i + 1 < run[j].totalFiles
                                          THEN "load" ELSE "loaded"]
       \/ /\ dbFaulty
          /\ import_history' = setImportFailed(import_history, j, "failed to update")
          /\ run' = [run EXCEPT ![j].pc = "failed", ![j].done = TRUE]
    /\ UNCHANGED <<server, currentJobID, req, resp, sampler, note, cache>>
    /\ UNCHANGED truncvars
    /\ UNCHANGED <<remote, dbFaulty, call>>

\* Mutant of MarkFile: the store is truncated again before the next file.
MarkFileTruncates(j) ==
    /\ run[j].pc = "mark"
    /\ import_history' = [import_history EXCEPT ![j].files_processed = run[j].i + 1]
    /\ run' = [run EXCEPT ![j].i = run[j].i + 1,
                          ![j].pc = IF run[j].i + 1 < run[j].totalFiles
                                    THEN "load" ELSE "loaded"]
    /\ note' = IF run[j].i + 1 < run[j].totalFiles THEN {} ELSE note
    /\ UNCHANGED <<server, currentJobID, req, resp, sampler, cache>>
    /\ UNCHANGED truncvars
    /\ UNCHANGED <<remote, dbFaulty, call>>

\* handlers.go:336-338: files_processed = i+1 and the next iteration.
MarkFile(j) ==
    /\ run[j].pc = "mark"
    /\ import_history' \in
         BestEffort([import_history EXCEPT ![j].files_processed = run[j].i + 1])
    /\ run' = [run EXCEPT ![j].i = run[j].i + 1,
                          ![j].pc = IF run[j].i + 1 < run[j].totalFiles
                                    THEN "load" ELSE "loaded"]
    /\ UNCHANGED <<server, currentJobID, req, resp, sampler, note, cache>>
    /\ UNCHANGED truncvars
    /\ UNCHANGED <<remote, dbFaulty, call>>

\* handlers.go:340-351: close(done) and the write of completed with the final
\* row count.
Complete(j) ==
    /\ run[j].pc = "loaded"
    /\ import_history' =
         [import_history EXCEPT ![j].status = "completed",
                                ![j].total_rows = run[j].totalRows,
                                ![j].completed_at = TRUE]
    /\ run' = [run EXCEPT ![j].pc = "release", ![j].done = TRUE]
    /\ UNCHANGED <<server, currentJobID, req, resp, sampler, note, cache>>
    /\ UNCHANGED truncvars
    /\ UNCHANGED <<remote, dbFaulty, call>>

\* handlers.go:353: currentJobID = nil.
Release(j) ==
    /\ run[j].pc = "release"
    /\ currentJobID' = NoJob
    /\ run' = [run EXCEPT ![j].pc = "finished"]
    /\ UNCHANGED <<server, import_history, req, resp, sampler, note, cache>>
    /\ UNCHANGED truncvars
    /\ UNCHANGED <<remote, dbFaulty, call>>

\* ------------------------------------------------------- sampling goroutine
\* pg_stat_progress_copy: the tuple counts of the COPY statements in flight.
InFlight == {run[k].copied : k \in {k \in JobIds : run[k].copied # NULL}}

\* handlers.go:299-300: the done case of the select.
SamplerStop(j) ==
    /\ sampler[j].pc = "wait"
    /\ run[j].done
    /\ sampler' = [sampler EXCEPT ![j].pc = "stopped"]
    /\ UNCHANGED <<server, import_history, currentJobID, req, resp, run, note, cache>>
    /\ UNCHANGED truncvars
    /\ UNCHANGED <<remote, dbFaulty, call>>

\* handlers.go:301-304: the timer case: SELECT tuples_processed FROM
\* pg_stat_progress_copy LIMIT 1; with no COPY in flight the Scan fails and
\* the loop goes round.  The timer of an iteration is new, so a select that
\* finds done closed takes the done case.
SamplerQuery(j) ==
    /\ sampler[j].pc = "wait"
    /\ ~run[j].done
    /\ \E t \in InFlight :
         sampler' = [sampler EXCEPT ![j].pc = "sampled", ![j].tuplesProcessed = t]
    /\ UNCHANGED <<server, import_history, currentJobID, req, resp, run, note, cache>>
    /\ UNCHANGED truncvars
    /\ UNCHANGED <<remote, dbFaulty, call>>

\* handlers.go:305-307: currentTotal := cumulativeRows + tuplesProcessed, under
\* the mutex.
SamplerAdd(j) ==
    /\ sampler[j].pc = "sampled"
    /\ sampler' = [sampler EXCEPT ![j].pc = "computed",
                     ![j].currentTotal = run[j].cumulativeRows + sampler[j].tuplesProcessed]
    /\ UNCHANGED <<server, import_history, currentJobID, req, resp, run, note, cache>>
    /\ UNCHANGED truncvars
    /\ UNCHANGED <<remote, dbFaulty, call>>

\* handlers.go:308: UPDATE import_history SET rows_processed = currentTotal.
SamplerWrite(j) ==
    /\ sampler[j].pc = "computed"
    /\ import_history' \in
         BestEffort([import_history EXCEPT ![j].rows_processed = sampler[j].currentTotal])
    /\ sampler' = [sampler EXCEPT ![j] = [NoSampler EXCEPT !.pc = "wait"]]
    /\ UNCHANGED <<server, currentJobID, req, resp, run, note, cache>>
    /\ UNCHANGED truncvars
    /\ UNCHANGED <<remote, dbFaulty, call>>

\* ------------------------------------------------------------ specification
\* The process, its request handlers and the background runs.  The sampling
\* goroutine is started but not scheduled here; SpecSampling schedules it.
Next ==
    \/ Boot
    \/ sanitizeImportStatus
    \/ ListenAndServe
    \/ Crash
    \/ \E r \in Req : createImportCheck(r)
    \/ \E r \in Req : createImportInsert(r)
    \/ \E r \in Req : createImportStart(r)
    \/ \E r \in Req, id \in JobIds : abortImport(r, id)
    \/ \E r \in Req : getCurrentImportCheck(r)
    \/ \E r \in Req : getCurrentImportQuery(r)
    \/ Deliver
    \/ \E j \in JobIds : Discover(j)
    \/ \E j \in JobIds : StatCached(j)
    \/ \E j \in JobIds : Request(j)
    \/ \E j \in JobIds : trackerRead(j)
    \/ \E j \in JobIds : TransferFails(j)
    \/ \E j \in JobIds : TransferDone(j)
    \/ \E j \in JobIds : Extract(j)
    \/ \E j \in JobIds : EnterImporting(j)
    \/ \E j \in JobIds : TruncateNote(j)
    \/ \E j \in JobIds : LoadStart(j)
    \/ \E j \in JobIds : CopyAdvance(j)
    \/ \E j \in JobIds : CopyDone(j)
    \/ \E j \in JobIds : CopyFails(j)
    \/ \E j \in JobIds : CountRows(j)
    \/ \E j \in JobIds : MarkFile(j)
    \/ \E j \in JobIds : Complete(j)
    \/ \E j \in JobIds : Release(j)

Spec == Init /\ [][Next]_vars

\* The importing phase of one job with its sampling goroutine.  It starts where
\* downloadNotesWithProgress has returned the files of job 1: every file was
\* transferred with a known size, none came from the cache.
FetchedRow(n) ==
    [NewRow EXCEPT !.download_percentage = 100, !.total_files = n,
                   !.current_file_index = n - 1, !.file_names = 1]

InitSampling ==
    /\ server = "serving"
    /\ \E n \in 1..MaxFiles, limit \in Limits :
         /\ import_history = <<FetchedRow(n)>>
         /\ run = [j \in JobIds |->
                     IF j = 1
                     THEN [NoRun EXCEPT !.pc = "fetched", !.limit = limit,
                                        !.totalFiles = n, !.i = n,
                                        !.known = TRUE, !.lastPct = 100]
                     ELSE NoRun]
         /\ cache = [f \in 0..(MaxFiles - 1) |->
                       IF f < n THEN "complete" ELSE "absent"]
    /\ currentJobID = 1
    /\ req = [r \in Req |-> IdleReq]
    /\ resp = NoResp
    /\ sampler = [j \in JobIds |-> NoSampler]
    /\ note = {}
    /\ tsv = <<>>
    /\ payload = <<>>
    /\ maxLines = 0
    /\ tpc = "input"
    /\ remote = 1
    /\ dbFaulty = FALSE
    /\ call = NoCall

NextSampling ==
    \/ \E j \in JobIds : EnterImporting(j)
    \/ \E j \in JobIds : TruncateNote(j)
    \/ \E j \in JobIds : LoadStart(j)
    \/ \E j \in JobIds : CopyAdvance(j)
    \/ \E j \in JobIds : CopyDone(j)
    \/ \E j \in JobIds : CopyFails(j)
    \/ \E j \in JobIds : CountRows(j)
    \/ \E j \in JobIds : MarkFile(j)
    \/ \E j \in JobIds : Complete(j)
    \/ \E j \in JobIds : Release(j)
    \/ \E j \in JobIds : SamplerStop(j)
    \/ \E j \in JobIds : SamplerQuery(j)
    \/ \E j \in JobIds : SamplerAdd(j)
    \/ \E j \in JobIds : SamplerWrite(j)

SpecSampling == InitSampling /\ [][NextSampling]_vars

\* The Go scheduler runs every runnable goroutine: the run and its sampler
\* each take their next step when one stays possible.
SpecSamplingFair ==
    /\ SpecSampling
    /\ \A j \in JobIds :
         /\ WF_vars(SamplerStop(j))
         /\ WF_vars(SamplerAdd(j))
         /\ WF_vars(SamplerWrite(j))

\* Two background runs side by side, as two create requests that both passed
\* the check of currentJobID start them.  Both found every file of the date in
\* the cache and have returned from downloadNotesWithProgress.
CachedRow(n) == [FetchedRow(n) EXCEPT !.download_cached = TRUE]

InitRace ==
    /\ server = "serving"
    /\ \E n \in 1..MaxFiles :
         /\ import_history = [j \in JobIds |-> CachedRow(n)]
         /\ \E limits \in [JobIds -> Limits] :
              run = [j \in JobIds |->
                       [NoRun EXCEPT !.pc = "fetched", !.limit = limits[j],
                                     !.totalFiles = n, !.i = n, !.cached = TRUE]]
    /\ cache = [f \in 0..(MaxFiles - 1) |-> "complete"]
    /\ currentJobID \in JobIds
    /\ req = [r \in Req |-> IdleReq]
    /\ resp = NoResp
    /\ sampler = [j \in JobIds |-> NoSampler]
    /\ note = {}
    /\ tsv = <<>>
    /\ payload = <<>>
    /\ maxLines = 0
    /\ tpc = "input"
    /\ remote = 1
    /\ dbFaulty = FALSE
    /\ call = NoCall

NextRace ==
    \/ \E j \in JobIds : EnterImporting(j)
    \/ \E j \in JobIds : TruncateNote(j)
    \/ \E j \in JobIds : LoadStart(j)
    \/ \E j \in JobIds : CopyAdvance(j)
    \/ \E j \in JobIds : CopyDone(j)
    \/ \E j \in JobIds : CopyFails(j)
    \/ \E j \in JobIds : CountRows(j)
    \/ \E j \in JobIds : MarkFile(j)
    \/ \E j \in JobIds : Complete(j)
    \/ \E j \in JobIds : Release(j)

SpecRace == InitRace /\ [][NextRace]_vars

\* One background run from its start to its end, with its sampling goroutine,
\* against a database that may refuse any progress UPDATE.
RunStep(j) ==
    \/ Discover(j)
    \/ StatCached(j)
    \/ Request(j)
    \/ trackerRead(j)
    \/ TransferFails(j)
    \/ TransferDone(j)
    \/ Extract(j)
    \/ EnterImporting(j)
    \/ TruncateNote(j)
    \/ LoadStart(j)
    \/ CopyAdvance(j)
    \/ CopyDone(j)
    \/ CopyFails(j)
    \/ CountRows(j)
    \/ MarkFile(j)
    \/ Complete(j)
    \/ Release(j)

InitFaulty ==
    /\ server = "serving"
    /\ import_history = <<NewRow>>
    /\ currentJobID = 1
    /\ req = [r \in Req |-> IdleReq]
    /\ resp = NoResp
    /\ \E limit \in Limits :
         run = [j \in JobIds |->
                  IF j = 1 THEN [NoRun EXCEPT !.pc = "discover", !.limit = limit]
                  ELSE NoRun]
    /\ sampler = [j \in JobIds |-> NoSampler]
    /\ note = {}
    /\ cache \in [0..(MaxFiles - 1) -> {"absent", "complete"}]
    /\ tsv = <<>>
    /\ payload = <<>>
    /\ maxLines = 0
    /\ tpc = "input"
    /\ remote = 1
    /\ dbFaulty = TRUE
    /\ call = NoCall

NextFaulty ==
    \/ \E j \in JobIds : RunStep(j)
    \/ \E j \in JobIds : SamplerStop(j)
    \/ \E j \in JobIds : SamplerQuery(j)
    \/ \E j \in JobIds : SamplerAdd(j)
    \/ \E j \in JobIds : SamplerWrite(j)

SpecFaulty ==
    /\ InitFaulty
    /\ [][NextFaulty]_vars
    /\ \A j \in JobIds : WF_vars(RunStep(j))

\* handlers.go:348-351: the database refuses the write of completed; the
\* error is logged and the run goes on to its end.
CompleteRefused(j) ==
    /\ run[j].pc = "loaded"
    /\ dbFaulty
    /\ run' = [run EXCEPT ![j].pc = "release", ![j].done = TRUE]
    /\ UNCHANGED <<server, import_history, currentJobID, req, resp, sampler, note, cache>>
    /\ UNCHANGED truncvars
    /\ UNCHANGED <<remote, dbFaulty, call>>

\* One background run against a database that may refuse the progress UPDATEs
\* and the write of completed.
NextRefusing ==
    \/ \E j \in JobIds : RunStep(j)
    \/ \E j \in JobIds : CompleteRefused(j)
    \/ \E j \in JobIds : SamplerStop(j)
    \/ \E j \in JobIds : SamplerQuery(j)
    \/ \E j \in JobIds : SamplerAdd(j)
    \/ \E j \in JobIds : SamplerWrite(j)

SpecRefusing ==
    /\ InitFaulty
    /\ [][NextRefusing]_vars
    /\ \A j \in JobIds : WF_vars(RunStep(j) \/ CompleteRefused(j))

\* One background run from its start to its end over a store that holds rows
\* loaded before the history of jobs begins (the note table is older than
\* import_history).
InitReload ==
    /\ server = "serving"
    /\ import_history = <<NewRow>>
    /\ currentJobID = 1
    /\ req = [r \in Req |-> IdleReq]
    /\ resp = NoResp
    /\ \E limit \in Limits :
         run = [j \in JobIds |->
                  IF j = 1 THEN [NoRun EXCEPT !.pc = "discover", !.limit = limit]
                  ELSE NoRun]
    /\ sampler = [j \in JobIds |-> NoSampler]
    /\ \E n \in 1..MaxFiles : note = {<<NoJob, f, 0>> : f \in 0..(n - 1)}
    /\ cache \in [0..(MaxFiles - 1) -> {"absent", "complete"}]
    /\ tsv = <<>>
    /\ payload = <<>>
    /\ maxLines = 0
    /\ tpc = "input"
    /\ remote = 1
    /\ dbFaulty = FALSE
    /\ call = NoCall

SpecReload == InitReload /\ [][NextFaulty]_vars

\* ---------------------------------------------------------------- scheduler
\* The remote site publishes the data of the next date.
RemotePublishes ==
    /\ remote < MaxDates
    /\ remote' = remote + 1
    /\ UNCHANGED <<server, import_history, currentJobID, req, resp, run, sampler,
                   note, cache>>
    /\ UNCHANGED truncvars
    /\ UNCHANGED <<dbFaulty, call>>

\* The date of the most recently completed job, 0 when no job has completed.
Completed == {j \in 1..Len(import_history) : import_history[j].status = "completed"}
LastCompletedDate ==
    IF Completed = {} THEN 0
    ELSE import_history[CHOOSE j \in Completed : \A k \in Completed : k <= j].file_names

\* Mutant of SchedulerTick: a job is triggered unless the remote date is older.
SchedulerTickNotOlder ==
    /\ server = "serving"
    /\ IF remote >= LastCompletedDate /\ currentJobID = NoJob
          /\ Len(import_history) < MaxJobs
       THEN /\ import_history' = Append(import_history, NewRow)
            /\ currentJobID' = Len(import_history) + 1
            /\ run' = [run EXCEPT ![Len(import_history) + 1] =
                         [NoRun EXCEPT !.pc = "discover"]]
       ELSE UNCHANGED <<import_history, currentJobID, run>>
    /\ UNCHANGED <<server, req, resp, sampler, note, cache>>
    /\ UNCHANGED truncvars
    /\ UNCHANGED <<remote, dbFaulty, call>>

\* One tick of the scheduler's timer: the latest remote date is compared with
\* the date of the most recently completed job; a job is triggered, as a create
\* request with no limit triggers it, only when the remote date is strictly
\* newer and no job holds currentJobID.
SchedulerTick ==
    /\ server = "serving"
    /\ IF remote > LastCompletedDate /\ currentJobID = NoJob
          /\ Len(import_history) < MaxJobs
       THEN /\ import_history' = Append(import_history, NewRow)
            /\ currentJobID' = Len(import_history) + 1
            /\ run' = [run EXCEPT ![Len(import_history) + 1] =
                         [NoRun EXCEPT !.pc = "discover"]]
       ELSE UNCHANGED <<import_history, currentJobID, run>>
    /\ UNCHANGED <<server, req, resp, sampler, note, cache>>
    /\ UNCHANGED truncvars
    /\ UNCHANGED <<remote, dbFaulty, call>>

NextScheduler ==
    \/ Boot
    \/ sanitizeImportStatus
    \/ ListenAndServe
    \/ Crash
    \/ RemotePublishes
    \/ SchedulerTick
    \/ \E j \in JobIds : Discover(j)
    \/ \E j \in JobIds : StatCached(j)
    \/ \E j \in JobIds : Request(j)
    \/ \E j \in JobIds : trackerRead(j)
    \/ \E j \in JobIds : TransferFails(j)
    \/ \E j \in JobIds : TransferDone(j)
    \/ \E j \in JobIds : Extract(j)
    \/ \E j \in JobIds : EnterImporting(j)
    \/ \E j \in JobIds : TruncateNote(j)
    \/ \E j \in JobIds : LoadStart(j)
    \/ \E j \in JobIds : CopyAdvance(j)
    \/ \E j \in JobIds : CopyDone(j)
    \/ \E j \in JobIds : CopyFails(j)
    \/ \E j \in JobIds : CountRows(j)
    \/ \E j \in JobIds : MarkFile(j)
    \/ \E j \in JobIds : Complete(j)
    \/ \E j \in JobIds : Release(j)

SpecScheduler == Init /\ [][NextScheduler]_vars

\* ---------------------------------------------------------- helper functions
\* The process at rest, for the specifications of one helper call.
Idle ==
    /\ server = "down"
    /\ import_history = <<>>
    /\ currentJobID = NoJob
    /\ req = [r \in Req |-> IdleReq]
    /\ resp = NoResp
    /\ run = [j \in JobIds |-> NoRun]
    /\ sampler = [j \in JobIds |-> NoSampler]
    /\ note = {}
    /\ cache = [f \in 0..(MaxFiles - 1) |-> "absent"]
    /\ tsv = <<>>
    /\ payload = <<>>
    /\ maxLines = 0
    /\ tpc = "input"
    /\ remote = 1
    /\ dbFaulty = FALSE

OnlyCall ==
    UNCHANGED <<server, import_history, currentJobID, req, resp, run, sampler,
                note, cache, tsv, payload, maxLines, tpc, remote, dbFaulty>>

\* What a probe of a remote file gives: status 200, another status, or an
\* error of the HTTP client.
ProbeResults == {"ok", "missing", "error"}

\* import.go:90-111: the lookback loop of downloadNotesWithProgress.  Dates
\* are days before today (the loop takes seconds; today stays the same day);
\* probes[d] is the answer to the GET of file 0 of that date.
InitLatest ==
    /\ Idle
    /\ \E n \in 0..MaxLookback, probes \in [0..(MaxLookback - 1) -> ProbeResults] :
         call = [fn |-> "latestDate", lookbackDays |-> n, probes |-> probes,
                 i |-> 0, probed |-> <<>>, date |-> NULL, found |-> FALSE,
                 pc |-> "loop"]

\* Mutant of ProbeDate: a probe that errors ends the loop with that date.
ProbeDateErrorFound ==
    /\ call.fn = "latestDate"
    /\ call.pc = "loop"
    /\ call.i < call.lookbackDays
    /\ call' = IF call.probes[call.i] # "missing"
               THEN [call EXCEPT !.probed = Append(@, call.i), !.date = call.i,
                                 !.found = TRUE, !.pc = "done"]
               ELSE [call EXCEPT !.probed = Append(@, call.i), !.date = call.i,
                                 !.i = call.i + 1]
    /\ OnlyCall

\* One iteration: date = getDateDaysAgo(i), GET of file 0; an error or a
\* status other than 200 goes on to the day before, 200 ends the loop.
ProbeDate ==
    /\ call.fn = "latestDate"
    /\ call.pc = "loop"
    /\ call.i < call.lookbackDays
    /\ call' = IF call.probes[call.i] = "ok"
               THEN [call EXCEPT !.probed = Append(@, call.i), !.date = call.i,
                                 !.found = TRUE, !.pc = "done"]
               ELSE [call EXCEPT !.probed = Append(@, call.i), !.date = call.i,
                                 !.i = call.i + 1]
    /\ OnlyCall

\* The loop condition fails: found is still false and the function returns
\* the error "no data files found".
LookbackEnds ==
    /\ call.fn = "latestDate"
    /\ call.pc = "loop"
    /\ call.i >= call.lookbackDays
    /\ call' = [call EXCEPT !.pc = "done"]
    /\ OnlyCall

NextLatest == ProbeDate \/ LookbackEnds

SpecLatest == InitLatest /\ [][NextLatest]_vars

\* import.go:62-83, 113-116: discoverFileCount and the test of its result.
\* heads[i] is the answer to the HEAD request of file i of the date: every file
\* below gap exists, file gap does not (or its probe errors), the files above
\* it all exist or all do not.
InitCount ==
    /\ Idle
    /\ \E gap \in 0..MaxScan, kind \in {"missing", "error"}, rest \in {"ok", "missing"} :
         call = [fn |-> "discoverFileCount",
                 heads |-> [i \in 0..(MaxScan - 1) |->
                              IF i < gap THEN "ok" ELSE IF i = gap THEN kind ELSE rest],
                 i |-> 0, probed |-> {}, totalFiles |-> NULL, failed |-> FALSE,
                 pc |-> "loop"]

\* Mutant of ProbeIndex: a probe that errors is skipped.
ProbeIndexSkipsError ==
    /\ call.fn = "discoverFileCount"
    /\ call.pc = "loop"
    /\ call.i < MaxScan
    /\ call' = IF call.heads[call.i] # "missing"
               THEN [call EXCEPT !.probed = @ \cup {call.i}, !.i = call.i + 1]
               ELSE [call EXCEPT !.probed = @ \cup {call.i}, !.totalFiles = call.i,
                                 !.pc = "returned"]
    /\ OnlyCall

\* One iteration: HEAD of file i; an error or a status other than 200
\* returns i.
ProbeIndex ==
    /\ call.fn = "discoverFileCount"
    /\ call.pc = "loop"
    /\ call.i < MaxScan
    /\ call' = IF call.heads[call.i] = "ok"
               THEN [call EXCEPT !.probed = @ \cup {call.i}, !.i = call.i + 1]
               ELSE [call EXCEPT !.probed = @ \cup {call.i}, !.totalFiles = call.i,
                                 !.pc = "returned"]
    /\ OnlyCall

\* The loop ran through: return 100.
ScanEnds ==
    /\ call.fn = "discoverFileCount"
    /\ call.pc = "loop"
    /\ call.i >= MaxScan
    /\ call' = [call EXCEPT !.totalFiles = MaxScan, !.pc = "returned"]
    /\ OnlyCall

\* import.go:113-116: totalFiles == 0 is the error "no files found for date".
CountChecked ==
    /\ call.fn = "discoverFileCount"
    /\ call.pc = "returned"
    /\ call' = [call EXCEPT !.failed = (call.totalFiles = 0), !.pc = "done"]
    /\ OnlyCall

NextCount == ProbeIndex \/ ScanEnds \/ CountChecked

SpecCount == InitCount /\ [][NextCount]_vars

\* import.go:33-60: progressTracker.Read over one response body.  Time is
\* counted in ticks, Second of them to a second; totalBytes is the declared
\* content length (-1 when the response declares none), startTime and
\* lastUpdate are the time of construction.
InitTracker ==
    /\ Idle
    /\ \E totalBytes \in {-1, 0, MaxBytes} :
         call = [fn |-> "progressTracker", totalBytes |-> totalBytes,
                 bytesRead |-> 0, lastPct |-> 0, lastUpdate |-> 0, now |-> 0,
                 divisor |-> NULL, wrote |-> FALSE,
                 obs |-> <<>>, prev |-> <<>>,
                 under |-> <<0, "nil">>, ret |-> <<0, "nil">>, pc |-> "open"]

\* Mutant of Throttle: the row is written on every read of a sized body.
ThrottleOff(totalBytes, pct, lastPct, elapsed) ==
    totalBytes > 0

\* Mutant of Throttle: the size of the body is not looked at.
ThrottleUnsized(totalBytes, pct, lastPct, elapsed) ==
    pct >= lastPct + 5 \/ elapsed >= Second

\* The condition of the write: the size is known, and the percentage is 5
\* above the last written one or a second has passed since the last write.
Throttle(totalBytes, pct, lastPct, elapsed) ==
    totalBytes > 0 /\ (pct >= lastPct + 5 \/ elapsed >= Second)

\* One call of Read: the wrapped reader gives n bytes and err after dt ticks;
\* the percentage is computed only for totalBytes > 0; the row is written under
\* Throttle; n and err are returned.  io.Copy stops at the first err.
Read ==
    /\ call.fn = "progressTracker"
    /\ call.pc = "open"
    /\ \E n \in 0..MaxRead, err \in {"nil", "EOF", "reset"}, dt \in 0..Second :
         /\ call.bytesRead + n <= MaxBytes
         /\ call.now + dt <= MaxTime
         /\ LET bytesRead == call.bytesRead + n
                now == call.now + dt
                known == call.totalBytes > 0
                pct == IF known THEN (bytesRead * 100) \div call.totalBytes ELSE 0
                write == Throttle(call.totalBytes, pct, call.lastPct,
                                  now - call.lastUpdate)
            IN  call' = [call EXCEPT
                           !.bytesRead = bytesRead,
                           !.now = now,
                           !.divisor = IF known THEN call.totalBytes ELSE call.divisor,
                           !.wrote = write,
                           !.lastPct = IF write THEN pct ELSE @,
                           !.lastUpdate = IF write THEN now ELSE @,
                           !.obs = IF write THEN <<pct, now>> ELSE @,
                           !.prev = IF write THEN call.obs ELSE @,
                           !.under = <<n, err>>,
                           !.ret = <<n, err>>,
                           !.pc = IF err = "nil" THEN "open" ELSE "closed"]
    /\ OnlyCall

NextTracker == Read

SpecTracker == InitTracker /\ [][NextTracker]_vars

\* import.go:326-344: cleanupOldFiles over the entries of dataDir.  A name is
\* a sequence of the characters 0 and 1, keepDate likewise.
Names == UNION {[1..n -> 0..1] : n \in 1..MaxName}

\* strings.HasPrefix
HasPrefix(name, prefix) ==
    /\ Len(name) >= Len(prefix)
    /\ SubSeq(name, 1, Len(prefix)) = prefix

\* The order of file names in which os.ReadDir lists a directory
RECURSIVE Before(_, _)
Before(x, y) ==
    IF x = <<>> THEN y # <<>>
    ELSE IF y = <<>> THEN FALSE
    ELSE IF Head(x) = Head(y) THEN Before(Tail(x), Tail(y))
    ELSE Head(x) < Head(y)

RECURSIVE ReadDir(_)
ReadDir(dir) ==
    IF dir = {} THEN <<>>
    ELSE LET first == CHOOSE x \in dir : \A y \in dir \ {x} : Before(x, y)
         IN  <<first>> \o ReadDir(dir \ {first})

InitCleanup ==
    /\ Idle
    /\ \E dir \in SUBSET Names, keepDate \in Names \cup {<<>>} :
         /\ Cardinality(dir) <= MaxEntries
         /\ call = [fn |-> "cleanupOldFiles", keepDate |-> keepDate,
                    before |-> dir, dir |-> dir, entries |-> <<>>, i |-> 1,
                    listed |-> FALSE, failed |-> {}, pc |-> "ReadDir"]

\* os.ReadDir(dataDir): on an error the function returns at once
ListEntries ==
    /\ call.fn = "cleanupOldFiles"
    /\ call.pc = "ReadDir"
    /\ \/ call' = [call EXCEPT !.entries = ReadDir(call.dir),
                                !.listed = TRUE, !.pc = "range"]
       \/ call' = [call EXCEPT !.pc = "return"]
    /\ OnlyCall

\* Mutant of RemoveEntry: the names equal to keepDate are the only ones kept.
RemoveEntryNotEqual ==
    /\ call.fn = "cleanupOldFiles"
    /\ call.pc = "range"
    /\ call.i <= Len(call.entries)
    /\ LET name == call.entries[call.i]
       IN  IF name # call.keepDate
           THEN \/ call' = [call EXCEPT !.dir = @ \ {name}, !.i = @ + 1]
                \/ call' = [call EXCEPT !.failed = @ \cup {name}, !.i = @ + 1]
           ELSE call' = [call EXCEPT !.i = @ + 1]
    /\ OnlyCall

\* One iteration of the loop: os.Remove of a name without the prefix, which
\* may fail and is then only logged
RemoveEntry ==
    /\ call.fn = "cleanupOldFiles"
    /\ call.pc = "range"
    /\ call.i <= Len(call.entries)
    /\ LET name == call.entries[call.i]
       IN  IF ~HasPrefix(name, call.keepDate)
           THEN \/ call' = [call EXCEPT !.dir = @ \ {name}, !.i = @ + 1]
                \/ call' = [call EXCEPT !.failed = @ \cup {name}, !.i = @ + 1]
           ELSE call' = [call EXCEPT !.i = @ + 1]
    /\ OnlyCall

CleanupReturns ==
    /\ call.fn = "cleanupOldFiles"
    /\ call.pc = "range"
    /\ call.i > Len(call.entries)
    /\ call' = [call EXCEPT !.pc = "return"]
    /\ OnlyCall

NextCleanup == ListEntries \/ RemoveEntry \/ CleanupReturns

SpecCleanup == InitCleanup /\ [][NextCleanup]_vars

\* import.go:246-269: countTSVRows over the bytes of one file.  A byte is a
\* newline or some other character; a file is a run of lines that are not
\* empty, the last of them with or without its newline, or has no byte at all.
Bytes == {"x", "\n"}

Files ==
    {f \in UNION {[1..n -> Bytes] : n \in 0..MaxFileBytes} :
        \A k \in 1..Len(f) : f[k] = "\n" => (k > 1 /\ f[k - 1] # "\n")}

InitRows ==
    /\ Idle
    /\ \E file \in Files :
         call = [fn |-> "countTSVRows", file |-> file, pos |-> 0, count |-> 0,
                 ret |-> NULL, pc |-> "Read"]

\* The loop over the bytes read: count++ for every newline
ScanByte ==
    /\ call.fn = "countTSVRows"
    /\ call.pc = "Read"
    /\ call.pos < Len(call.file)
    /\ call' = [call EXCEPT !.pos = @ + 1,
                            !.count = IF call.file[call.pos + 1] = "\n"
                                      THEN @ + 1 ELSE @]
    /\ OnlyCall

\* End of file: return count - 1, nil
RowsReturned ==
    /\ call.fn = "countTSVRows"
    /\ call.pc = "Read"
    /\ call.pos = Len(call.file)
    /\ call' = [call EXCEPT !.ret = call.count - 1, !.pc = "return"]
    /\ OnlyCall

NextRows == ScanByte \/ RowsReturned

SpecRows == InitRows /\ [][NextRows]_vars

\* import.go:134-203 and handlers.go:265-275: the FileSize kept for each file
\* and their sum.  disk[k] is the size in bytes of archive k - 1 once it is in
\* the cache directory; cached[k] tells whether it is there at the start.
InitSizes ==
    /\ Idle
    /\ \E n \in 1..MaxFiles :
         \E disk \in [1..n -> 1..MaxSize], cached \in [1..n -> BOOLEAN] :
            call = [fn |-> "fileSize", disk |-> disk, cached |-> cached,
                    files |-> <<>>, totalSize |-> 0, pc |-> "loop"]

\* import.go:137-143: the file is in the cache: fileSize = info.Size()
FileCached ==
    /\ call.fn = "fileSize"
    /\ call.pc = "loop"
    /\ Len(call.files) < Len(call.disk)
    /\ call.cached[Len(call.files) + 1]
    /\ call' = [call EXCEPT !.files = Append(@, call.disk[Len(call.files) + 1])]
    /\ OnlyCall

\* import.go:145-188: the file is transferred: fileSize = totalBytes, the
\* ContentLength of the response, -1 when the response declares none.
FileDownloaded ==
    /\ call.fn = "fileSize"
    /\ call.pc = "loop"
    /\ Len(call.files) < Len(call.disk)
    /\ ~call.cached[Len(call.files) + 1]
    /\ \E totalBytes \in {-1, call.disk[Len(call.files) + 1]} :
         call' = [call EXCEPT !.files = Append(@, totalBytes)]
    /\ OnlyCall

RECURSIVE SumSeq(_)
SumSeq(q) == IF q = <<>> THEN 0 ELSE Head(q) + SumSeq(Tail(q))

\* handlers.go:270-283: totalSize += f.FileSize over the files, written as
\* file_size with status importing
SumSizes ==
    /\ call.fn = "fileSize"
    /\ call.pc = "loop"
    /\ Len(call.files) = Len(call.disk)
    /\ call' = [call EXCEPT !.totalSize = SumSeq(call.files), !.pc = "importing"]
    /\ OnlyCall

NextSizes == FileCached \/ FileDownloaded \/ SumSizes

SpecSizes == InitSizes /\ [][NextSizes]_vars

\* truncateTSV applied to one extracted payload: a header line and up to
\* MaxLines - 1 data lines, or an empty file.
RECURSIVE SeqsOver(_, _)
SeqsOver(S, n) ==
    IF n = 0 THEN {<<>>}
    ELSE LET shorter == SeqsOver(S, n - 1)
         IN  shorter \cup {Append(q, x) : q \in shorter, x \in S}

Payloads == {<<>>} \cup {<<"header">> \o d : d \in SeqsOver({"a", "b"}, MaxLines - 1)}

InitTrunc ==
    /\ server = "down"
    /\ import_history = <<>>
    /\ currentJobID = NoJob
    /\ req = [r \in Req |-> IdleReq]
    /\ resp = NoResp
    /\ run = [j \in JobIds |-> NoRun]
    /\ sampler = [j \in JobIds |-> NoSampler]
    /\ note = {}
    /\ cache = [f \in 0..(MaxFiles - 1) |-> "absent"]
    /\ payload \in Payloads
    /\ tsv = payload
    /\ maxLines \in 0..MaxLimit
    /\ tpc = "input"
    /\ remote = 1
    /\ dbFaulty = FALSE
    /\ call = NoCall

\* handlers.go:256-263: truncateTSV(f.TSVPath, limit) when limit > 0; the file
\* is rewritten in place.
Truncate ==
    /\ tpc = "input"
    /\ tsv' = IF maxLines > 0 THEN truncateTSV(tsv, maxLines) ELSE tsv
    /\ tpc' = "output"
    /\ UNCHANGED <<server, import_history, currentJobID, req, resp, run, sampler,
                   note, cache, payload, maxLines, remote, dbFaulty, call>>

NextTrunc == Truncate

SpecTrunc == InitTrunc /\ [][NextTrunc]_vars

\* =================================================================== properties
Rows == 1..Len(import_history)
Row(j) == import_history[j]

\* A handler step that writes a response with this status code.
Replies(code) == resp = NoResp /\ resp'.code = code

\* C1: at most one job row is downloading or importing at any time, for every
\* interleaving of create-job requests.
C1_SingleActive == Cardinality(ActiveJobs) <= 1

\* C2: after a restart, sanitizeImportStatus turns every row left in
\* downloading or importing into failed / 'Interrupted' and leaves no such row
\* behind, and no request is accepted before it has run: while the process is
\* serving, every active row belongs to a handler or run of this process.
C2_Recovered ==
    /\ server = "sanitized" => ActiveJobs = {}
    /\ server # "serving" => /\ \A r \in Req : req[r].pc = "idle"
                             /\ resp = NoResp
                             /\ \A j \in JobIds : run[j].pc = "none"
    /\ server = "serving" =>
         \A j \in ActiveJobs :
             \/ run[j].pc # "none"
             \/ \E r \in Req : req[r] = [pc |-> "inserted", job |-> j]

C2_Sanitize ==
    /\ (server = "booted" /\ server' = "sanitized") =>
         /\ Len(import_history') = Len(import_history)
         /\ \A j \in Rows :
              IF Active(Row(j))
              THEN /\ import_history'[j].status = "failed"
                   /\ import_history'[j].error_message = "Interrupted"
              ELSE import_history'[j] = Row(j)
    /\ (server # "serving" /\ server' = "serving") => server = "sanitized"

StatusStep(a, b) ==
    \/ a = b
    \/ a = "downloading" /\ b \in {"importing", "failed"}
    \/ a = "importing" /\ b \in {"completed", "failed"}

C3_StateMachine ==
    [][\A j \in Rows : StatusStep(Row(j).status, import_history'[j].status)]_vars

\* C4: a create request is answered 409 only while some job is downloading or
\* importing; when none is, it is not refused.
C4_NoConflictWhenIdle ==
    [][Replies(StatusConflict) => ActiveJobs # {}]_vars

\* C5: a fatal error of the background run leaves the row failed with an error
\* message, the run stops there with no load in flight, and the process keeps
\* serving.
C5_Failed ==
    \A j \in JobIds :
        run[j].pc = "failed" =>
            /\ j \in Rows
            /\ Row(j).status = "failed"
            /\ Row(j).error_message # "NULL"
            /\ run[j].copied = NULL
            /\ server = "serving"

C5_Stops ==
    \A j \in JobIds :
        run[j].pc = "failed" => (run'[j] = run[j] \/ run'[j] = NoRun)

C6_Truncation ==
    (tpc = "output" /\ Len(payload) >= 1) =>
        tsv = IF maxLines > 0
              THEN SubSeq(payload, 1, 1 + Min(maxLines, Len(payload) - 1))
              ELSE payload

\* C7: while a job is importing, its persisted rows_processed never decreases.
C7_RowsMonotonic ==
    [][\A j \in Rows :
         (Row(j).status = "importing" /\ import_history'[j].status = "importing")
            => import_history'[j].rows_processed >= Row(j).rows_processed]_vars

C9_Abort ==
    [][/\ Replies(StatusNoContent) =>
            /\ resp'.job \in ActiveJobs
            /\ import_history' =
                 [import_history EXCEPT ![resp'.job].status = "failed",
                                        ![resp'.job].error_message = "Aborted by user",
                                        ![resp'.job].completed_at = TRUE]
       /\ Replies(StatusNotFound) =>
            /\ resp'.job \notin ActiveJobs
            /\ import_history' = import_history
       /\ \A j \in Rows :
            (import_history'[j].error_message = "Aborted by user"
               /\ Row(j).error_message # "Aborted by user")
            => (Replies(StatusNoContent) /\ resp'.job = j)]_vars

\* C9 witness: an abort of a completed job was answered 404.
C9_Witness ==
    /\ resp.code = StatusNotFound
    /\ resp.job \in Rows
    /\ Row(resp.job).status = "completed"

\* C10: once a job in its load loop was marked failed by an abort, the run
\* starts no further bulk load at the checkpoint before the next file,
\* files_processed stays, the status stays failed and the failure reason is
\* not overwritten.
AbortedJob(j) == Row(j).status = "failed" /\ Row(j).error_message = "Aborted by user"
LoadLoop == {"load", "copying", "count", "mark", "loaded"}

C10_AbortCheckpoint ==
    [][\A j \in Rows :
         (AbortedJob(j) /\ run[j].pc \in LoadLoop) =>
            /\ import_history'[j].status = "failed"
            /\ import_history'[j].error_message = "Aborted by user"
            /\ run[j].pc = "load" =>
                  /\ run'[j].pc # "copying"
                  /\ import_history'[j].files_processed = Row(j).files_processed]_vars

\* C11: a file of the job that is already at its cache path is not
\* transferred: the run's next step writes download_cached = true and
\* download_percentage = 100 for that index and touches no cache file, the step
\* after it is the extraction, and the load loop, which ends only after the
\* last index, puts the rows of every file it copies in the store, the cached
\* ones too.
RunSteps(j) == run'[j] # run[j] /\ server' = "serving"
AllFiles(j) == {<<j, i, run[j].limit>> : i \in 0..(run[j].totalFiles - 1)}

C11_Step ==
    \A j \in JobIds :
        /\ (run[j].pc = "stat" /\ cache[run[j].i] # "absent" /\ RunSteps(j)) =>
              /\ cache' = cache
              /\ run'[j].pc = "post"
              /\ import_history'[j].current_file_index = run[j].i
              /\ import_history'[j].download_cached = TRUE
              /\ import_history'[j].download_percentage = 100
        /\ (run[j].pc = "post" /\ run[j].cached /\ RunSteps(j)) =>
              /\ cache' = cache
              /\ run'[j].pc \in {"stat", "fetched", "failed"}
              /\ run'[j].pc = "failed" =>
                    import_history'[j].error_message = "failed to extract"
              /\ run'[j].pc # "failed" =>
                    /\ run'[j].i = run[j].i + 1
                    /\ import_history'[j].download_cached = TRUE
        /\ (run[j].pc = "copying" /\ run'[j].pc = "count") =>
              <<j, run[j].i, run[j].limit>> \in note'

C11_Loaded ==
    \A j \in JobIds :
        run[j].pc \in {"loaded", "release", "finished"} =>
            run[j].i = run[j].totalFiles

C12_Totals ==
    \A j \in Rows :
        (Row(j).status = "completed" /\ run[j].pc \in {"release", "finished"}) =>
            /\ Row(j).total_files = run[j].totalFiles
            /\ Row(j).files_processed = Row(j).total_files
            /\ Row(j).total_rows = expectedTotalRows(run[j].limit, run[j].totalFiles)

\* C13: the step that completes a job leaves the store with exactly the rows
\* of that job's files.
C13_Replacement ==
    [][\A j \in Rows :
         (Row(j).status # "completed" /\ import_history'[j].status = "completed")
            => note' = AllFiles(j)]_vars

\* C14: GET /imports/current answers with the most recent job also when that
\* job is no longer active: with a job in the table and the newest one
\* completed or failed, the answer is that job's record, not an empty status.
C14_CurrentIsLatest ==
    [][(Replies(StatusOK) /\ Rows # {} /\ ~Active(Row(Len(import_history))))
          => resp'.job = Len(import_history)]_vars

\* C15 as stated: a tick creates a job only when the remote date is strictly
\* newer than the date of the most recently completed job, and ticks with
\* unchanged remote data create at most one job: no tick creates a job while
\* a job found for the same remote date is in the table.
JobCreated == Len(import_history') = Len(import_history) + 1

C15_TickNewerOnly ==
    JobCreated => \A j \in Rows :
                      Row(j).status = "completed" => Row(j).file_names < remote

C16_Step ==
    \A j \in JobIds :
        /\ (run'[j].pc = "truncate" /\ run[j].pc # "truncate") =>
              /\ run[j].pc = "fetched"
              /\ import_history'[j].status = "importing"
        /\ (run[j].pc = "truncate" /\ RunSteps(j)) =>
              \/ run'[j].pc = "load" /\ run'[j].i = 0 /\ note' = {}
              \/ run'[j].pc = "failed" /\ note' = note
        /\ (run'[j].pc = "load" /\ run[j].pc # "load") =>
              \/ run[j].pc = "truncate"
              \/ run[j].pc = "mark" /\ run'[j].i > 0
        /\ (run[j].pc \in LoadLoop /\ RunSteps(j)) =>
              /\ note \subseteq note'
              /\ run'[j].pc # "truncate"

C16_TruncateOnce == [][C16_Step]_vars

\* C16 witness: the truncate of job 2 has emptied a store that held file 0 of
\* job 1, and job 2 is about to load its first file.
C16_Witness ==
    /\ run[1].pc = "count" /\ run[1].i = 0
    /\ run[2].pc = "load" /\ run[2].i = 0
    /\ note = {}

\* C17: a run fetches its files in ascending index order 0..count-1, one index
\* at a time, and leaves the download phase only after the last index; it
\* loads them in the same order, the first load after the download phase, and
\* the load of file i+1 starts only after the COPY of file i has returned
\* without error.
C17_Step ==
    \A j \in JobIds :
        /\ (run[j].pc = "discover" /\ RunSteps(j) /\ run'[j].pc # "failed") =>
              run'[j].pc = "stat" /\ run'[j].i = 0 /\ run'[j].totalFiles >= 1
        /\ (run[j].pc \in {"stat", "copy"} /\ RunSteps(j)) =>
              /\ run'[j].i = run[j].i
              /\ run'[j].pc \in {"copy", "post", "failed"}
              /\ \A f \in DOMAIN cache : cache'[f] # cache[f] => f = run[j].i
        /\ (run[j].pc = "post" /\ RunSteps(j) /\ run'[j].pc # "failed") =>
              /\ run'[j].i = run[j].i + 1
              /\ run'[j].pc = IF run'[j].i = run[j].totalFiles THEN "fetched" ELSE "stat"
        /\ (run[j].pc = "fetched" /\ RunSteps(j)) => run'[j].pc = "truncate"
        /\ (run'[j].pc = "load" /\ run[j].pc # "load") =>
              \/ run[j].pc = "truncate" /\ run'[j].i = 0
              \/ run[j].pc = "mark" /\ run'[j].i = run[j].i + 1
        /\ (run'[j].pc = "copying" /\ run[j].pc # "copying") =>
              /\ run[j].pc = "load"
              /\ run'[j].i = run[j].i
              /\ import_history'[j].current_file_index = run[j].i
        /\ (run'[j].pc = "count" /\ run[j].pc # "count") =>
              /\ run[j].pc = "copying"
              /\ run[j].copied = LoadedRows(run[j].limit, run[j].i)
              /\ run'[j].i = run[j].i
        /\ (run'[j].pc = "mark" /\ run[j].pc # "mark") =>
              run[j].pc = "count" /\ run'[j].i = run[j].i

C17_Index ==
    \A j \in JobIds :
        /\ run[j].pc \in {"stat", "copy", "post", "load", "copying", "count", "mark"}
              => run[j].i \in 0..(run[j].totalFiles - 1)
        /\ run[j].pc \in {"fetched", "truncate", "loaded"}
              => run[j].i = run[j].totalFiles

C17_Order == []C17_Index /\ [][C17_Step]_vars

\* C17 witness: the load of the second file has started after the first file
\* was loaded.
C17_Witness ==
    \E j \in Rows :
        /\ run[j].pc = "copying"
        /\ run[j].i = 1
        /\ Row(j).files_processed = 1
        /\ Row(j).current_file_index = 1
        /\ \E l \in Limits : <<j, 0, l>> \in note

\* C18: the sampling goroutine of a job is started at most once, by the step
\* that truncated the store; the done channel is closed exactly once on every
\* path after that, by the failing COPY or after the last file, never a second
\* time; and once it is closed the sampling goroutine terminates.
Closes(j) ==
    \/ run[j].pc = "copying" /\ run'[j].pc = "failed"
    \/ run[j].pc = "loaded" /\ run'[j].pc = "release"

C18_Step ==
    \A j \in JobIds :
        /\ (sampler[j].pc = "off" /\ sampler'[j].pc # "off") =>
              run[j].pc = "truncate" /\ run'[j].pc = "load" /\ sampler'[j].pc = "wait"
        /\ sampler[j].pc # "off" => sampler'[j].pc # "off"
        /\ (sampler'[j].pc = "wait" /\ sampler[j].pc # "wait") =>
              sampler[j].pc \in {"off", "computed"}
        /\ sampler[j].pc = "stopped" => sampler'[j].pc = "stopped"
        /\ Closes(j) => ~run[j].done /\ run'[j].done
        /\ run'[j].done # run[j].done => Closes(j)

C18_Closed ==
    \A j \in JobIds :
        /\ run[j].pc \in LoadLoop => ~run[j].done /\ sampler[j].pc # "off"
        /\ (sampler[j].pc # "off" /\ run[j].pc \in {"failed", "release", "finished"})
              => run[j].done
        /\ sampler[j].pc = "stopped" => run[j].done

C18_DoneOnce ==
    /\ []C18_Closed
    /\ [][C18_Step]_vars
    /\ \A j \in JobIds : run[j].done ~> sampler[j].pc = "stopped"

\* C18 witness: a COPY failed at the second file, the channel is closed and
\* the sampling goroutine has returned.
C18_Witness ==
    \E j \in Rows :
        /\ run[j].pc = "failed"
        /\ run[j].done
        /\ Row(j).files_processed = 1
        /\ sampler[j].pc = "stopped"

\* C19: a progress UPDATE that the database refuses never marks the job failed
\* and never stops the run: the row becomes failed only where discovery, a
\* transfer, an extraction, the truncate or a bulk load fails, the run comes
\* to its end, and a run that comes to its end without such a failure has
\* written completed.
FatalPoints == {"discover", "stat", "copy", "post", "truncate", "copying"}

C19_Step ==
    \A j \in Rows :
        /\ (Row(j).status # "failed" /\ import_history'[j].status = "failed") =>
              run[j].pc \in FatalPoints /\ run'[j].pc = "failed"
        /\ (run'[j].pc = "failed" /\ run[j].pc # "failed") => run[j].pc \in FatalPoints

C19_Completed ==
    \A j \in Rows :
        /\ run[j].pc \in {"release", "finished"} => Row(j).status = "completed"
        /\ Row(j).status = "failed" => run[j].pc = "failed"

C19_BestEffort ==
    /\ []C19_Completed
    /\ [][C19_Step]_vars
    /\ \A j \in JobIds :
         run[j].pc = "discover" ~> run[j].pc \in {"finished", "failed"}

\* C19 witness: a job is completed although the UPDATEs of total_files and
\* files_processed were refused.
C19_Witness ==
    /\ Row(1).status = "completed"
    /\ run[1].pc = "finished"
    /\ Row(1).total_files = NULL
    /\ Row(1).files_processed = 0
    /\ Row(1).download_percentage = 100

\* C20: when the transfer of file i fails while it is written to disk, the
\* partial file is gone from the cache path no later than the job is marked
\* failed, every other cache file is left as it was, and the run requests no
\* further file.
C20_Step ==
    \A j \in JobIds :
        /\ (run[j].pc = "copy" /\ run'[j].pc = "failed") =>
              /\ cache[run[j].i] = "partial"
              /\ cache' = [cache EXCEPT ![run[j].i] = "absent"]
              /\ import_history'[j].status = "failed"
              /\ import_history'[j].error_message = "failed to write file"
              /\ run'[j].i = run[j].i
        /\ (run[j].pc = "failed" /\ server' = "serving") => run'[j] = run[j]

C20_PartialDeleted == [][C20_Step]_vars

\* C20 witness: the transfer of the second file failed; the first file is in
\* the cache, the second is not.
C20_Witness ==
    \E j \in Rows :
        /\ run[j].pc = "failed"
        /\ run[j].i = 1
        /\ Row(j).error_message = "failed to write file"
        /\ cache[0] = "complete"
        /\ cache[1] = "absent"

\* C21: the lookback loop probes file 0 of today, then of one day earlier at a
\* time, for at most lookbackDays dates; it ends with the newest date of the
\* window whose probe answered 200, an error counting as no data, and with
\* found = false when the window has no such date.
HasData == {d \in 0..(call.lookbackDays - 1) : call.probes[d] = "ok"}

C21_LatestDate ==
    call.fn = "latestDate" =>
        /\ call.probed = [k \in 1..Len(call.probed) |-> k - 1]
        /\ Len(call.probed) <= call.lookbackDays
        /\ call.pc = "done" =>
              IF HasData = {}
              THEN ~call.found /\ Len(call.probed) = call.lookbackDays
              ELSE /\ call.found
                   /\ call.date \in HasData
                   /\ \A d \in HasData : call.date <= d

\* C21 witness: today's probe failed, yesterday has no data, the day before
\* has.
C21_Witness ==
    /\ call.fn = "latestDate"
    /\ call.pc = "done"
    /\ call.found
    /\ call.date = 2
    /\ call.probes[0] = "error"
    /\ call.probes[1] = "missing"

\* C22: discoverFileCount returns the least index in 0..99 whose probe did not
\* answer 200, or 100 when all of them did; it probes no index above 99 and
\* none above the first missing one; a result of 0 is a failure of the job.
Gaps == {i \in 0..(MaxScan - 1) : call.heads[i] # "ok"}
FirstGap == IF Gaps = {} THEN MaxScan ELSE CHOOSE g \in Gaps : \A h \in Gaps : g <= h

C22_FileCount ==
    call.fn = "discoverFileCount" =>
        /\ call.probed \subseteq 0..(MaxScan - 1)
        /\ \A i \in call.probed : i <= FirstGap
        /\ call.pc \in {"returned", "done"} =>
              /\ call.totalFiles = FirstGap
              /\ call.probed = 0..Min(FirstGap, MaxScan - 1)
        /\ call.pc = "done" => (call.failed <=> call.totalFiles = 0)

\* C22 witness: the probe of file 2 errors while files above it exist.
C22_Witness ==
    /\ call.fn = "discoverFileCount"
    /\ call.pc = "done"
    /\ call.totalFiles = 2
    /\ call.heads[2] = "error"
    /\ call.heads[3] = "ok"
    /\ ~call.failed

\* C23: the tracker writes an observation only when the total size is known
\* and the percentage is at least 5 above that of the last observation or at
\* least a second has passed since it (since construction, for the first one);
\* two successive observations less than a second apart differ by at least 5.
C23_Throttle ==
    (call.fn = "progressTracker" /\ call.obs # <<>>) =>
        /\ call.totalBytes > 0
        /\ IF call.prev = <<>>
           THEN call.obs[1] >= 5 \/ call.obs[2] >= Second
           ELSE \/ call.obs[1] >= call.prev[1] + 5
                \/ call.obs[2] - call.prev[2] >= Second

\* C23 witness: two observations one tick apart, 8 points apart.
C23_Witness ==
    /\ call.fn = "progressTracker"
    /\ call.prev # <<>>
    /\ call.obs[2] - call.prev[2] = 1
    /\ call.obs[1] - call.prev[1] = 8

\* C24: with an unknown total size (content length zero or negative) the
\* tracker writes no observation and divides by nothing, and every call hands
\* on the byte count and the error of the wrapped reader as they are.
C24_UnknownSize ==
    (call.fn = "progressTracker" /\ call.totalBytes <= 0) =>
        /\ call.obs = <<>>
        /\ ~call.wrote
        /\ call.divisor = NULL
        /\ call.ret = call.under

\* C24 witness: a body of undeclared size read for more than a second, ending
\* in a reader error.
C24_Witness ==
    /\ call.fn = "progressTracker"
    /\ call.totalBytes = -1
    /\ call.bytesRead > MaxRead
    /\ call.now > Second
    /\ call.ret = <<1, "reset">>

\* C25 as stated: cleanupOldFiles leaves the entries that start with keepDate,
\* and when it has returned every other entry is gone unless its removal
\* failed.  Violated when the directory cannot be listed.
C25_OnlyKept ==
    call.fn = "cleanupOldFiles" =>
        /\ \A name \in call.before : HasPrefix(name, call.keepDate) => name \in call.dir
        /\ call.pc = "return" =>
              \A name \in call.dir : HasPrefix(name, call.keepDate) \/ name \in call.failed

\* C25: cleanupOldFiles leaves the entries that start with keepDate, and when
\* it has returned after listing the directory the directory holds those
\* entries and the ones whose removal failed, nothing else.
C25_Cleanup ==
    call.fn = "cleanupOldFiles" =>
        /\ \A name \in call.before : HasPrefix(name, call.keepDate) => name \in call.dir
        /\ call.dir \subseteq call.before
        /\ (call.pc = "return" /\ call.listed) =>
              call.dir = {name \in call.before :
                            HasPrefix(name, call.keepDate) \/ name \in call.failed}
        /\ (call.pc = "return" /\ ~call.listed) => call.dir = call.before

\* C25 witness: a finished cleanup that kept one entry, removed one and failed
\* to remove a third.
C25_Witness ==
    /\ call.fn = "cleanupOldFiles"
    /\ call.pc = "return"
    /\ call.listed
    /\ Cardinality(call.failed) = 1
    /\ Cardinality(call.dir) = 2
    /\ Cardinality(call.before) = 3
    /\ Len(call.keepDate) = MaxName

\* The lines of the files F of the remote data set as a run with this limit
\* leaves them, the header line of each file not counted.
RECURSIVE LinesLessHeader(_, _)
LinesLessHeader(limit, F) ==
    IF F = {} THEN 0
    ELSE LET i == CHOOSE x \in F : TRUE
         IN  Len(truncateTSV(Payload(i), limit)) - 1 + LinesLessHeader(limit, F \ {i})

C27_MessageOnlyFailed ==
    \A j \in Rows :
        import_history[j].error_message # "NULL" => import_history[j].status = "failed"

C29_PointerAgrees ==
    (/\ server = "serving"
     /\ \A r \in Req : req[r] = IdleReq
     /\ \A j \in JobIds : run[j].pc \in {"none", "failed", "finished"}) =>
        /\ currentJobID # NoJob <=> ActiveJobs # {}
        /\ currentJobID # NoJob => currentJobID \in ActiveJobs

\* C30: while a job is importing, its persisted rows_processed is at most the
\* rows of the files it has loaded plus the rows of the COPY it has in flight.
C30_NoDoubleCount ==
    \A j \in Rows :
        import_history[j].status = "importing" =>
            import_history[j].rows_processed
              <= SumRows({e \in note : e[1] = j})
                   + (IF run[j].copied # NULL THEN run[j].copied ELSE 0)

\* C31: a row that is completed or failed is not written again.
C31_TerminalFrozen ==
    [][\A j \in Rows :
         Row(j).status \in {"completed", "failed"} => import_history'[j] = Row(j)]_vars

\* C32: while no transfer is in flight the cache directory holds no partially
\* written archive.
C32_NoPartial ==
    (\A j \in JobIds : run[j].pc # "copy") =>
        \A f \in DOMAIN cache : cache[f] # "partial"

\* C33: a run in the downloading phase leaves the store as it is; a run that
\* fails there (discovery, transfer, extraction) has loaded nothing into the
\* store, and takes no further step.
DownloadPoints == {"discover", "stat", "copy", "post"}

C33_StoreUntouched ==
    [][\A j \in JobIds :
         /\ (RunSteps(j) /\ run[j].pc \in DownloadPoints) =>
               /\ note' = note
               /\ \A e \in note : e[1] # j
         /\ (run[j].pc = "failed" /\ server' = "serving") =>
               run'[j] = run[j]]_vars

\* C33 witness: a job failed on an extraction while the store holds the rows
\* of an earlier job.
C33_Witness ==
    \E j \in Rows :
        /\ run[j].pc = "failed"
        /\ Row(j).status = "failed"
        /\ Row(j).error_message = "failed to extract"
        /\ note # {}
        /\ \A e \in note : e[1] # j

\* C34: a row has completed_at set exactly when its status is completed or
\* failed.
C34_CompletedAt ==
    \A j \in Rows :
        Row(j).completed_at <=> Row(j).status \in {"completed", "failed"}

\* The bulk loads of run j that have returned without error.
Loads(j) ==
    IF run[j].pc \in {"load", "copying"} THEN run[j].i
    ELSE IF run[j].pc \in {"count", "mark"} THEN run[j].i + 1
    ELSE run[j].totalFiles

LoadPhase == {"load", "copying", "count", "mark", "loaded", "release", "finished"}

C35_Step ==
    \A j \in Rows :
        import_history'[j].files_processed # Row(j).files_processed =>
            \/ /\ Row(j).files_processed = NULL
               /\ import_history'[j].files_processed = 0
               /\ run[j].pc = "fetched"
            \/ /\ import_history'[j].files_processed = Row(j).files_processed + 1
               /\ run[j].pc = "mark"
               /\ run'[j].i = run[j].i + 1

C35_State ==
    \A j \in Rows :
        /\ Coalesce(Row(j).files_processed) >= 0
        /\ Row(j).files_processed # NULL =>
              Row(j).files_processed <= Row(j).total_files
        /\ run[j].pc \in LoadPhase =>
              Row(j).files_processed
                = IF run[j].pc \in {"count", "mark"} THEN Loads(j) - 1 ELSE Loads(j)

C36_Terminates ==
    \A j \in JobIds :
        (j \in Rows /\ Active(import_history[j]))
          ~> (j \in Rows /\ import_history[j].status \in {"completed", "failed"})

\* The lines of a file, a last line without its newline included, and the
\* data rows: every line but the header.
LinesOf(f) ==
    Cardinality({k \in 1..Len(f) : f[k] = "\n"})
      + (IF Len(f) > 0 /\ f[Len(f)] # "\n" THEN 1 ELSE 0)

DataRowsOf(f) == IF LinesOf(f) = 0 THEN 0 ELSE LinesOf(f) - 1

\* C37: countTSVRows returns the number of data rows of the file, never a
\* negative number.
C37_RowCount ==
    (call.fn = "countTSVRows" /\ call.pc = "return") =>
        /\ call.ret >= 0
        /\ call.ret = DataRowsOf(call.file)

\* C38: the size recorded for each file is the size of its archive on disk,
\* and the size written on entering importing is the sum of those sizes;
\* neither is negative.
C38_FileSize ==
    call.fn = "fileSize" =>
        /\ \A k \in 1..Len(call.files) :
              call.files[k] >= 0 /\ call.files[k] = call.disk[k]
        /\ call.pc = "importing" =>
              call.totalSize >= 0 /\ call.totalSize = SumSeq(call.disk)

====
